---- MODULE Spec2Model ----
(***************************************************************************)
(* Model of the security-analytics detector and detector-rule resources    *)
(* of terraform-provider-opensearch:                                        *)
(*   src/provider/resource_opensearch_sa_detector.go                        *)
(*   src/provider/resource_opensearch_sa_custom_rule.go                     *)
(*                                                                          *)
(* One resource instance (of one kind) is driven through the handlers      *)
(* Create / Read / Update / Delete / import against an OpenSearch server    *)
(* that holds the authoritative documents.  Every HTTP call of a handler    *)
(* may fail in transport or come back undecodable, and the document may be  *)
(* removed on the server by another party at any time, also between the     *)
(* two calls of one handler.                                                *)
(*                                                                          *)
(* JSON text is a sequence of <<key, value>> members (order and duplicate   *)
(* keys are visible), a decoded JSON object is a function from keys to      *)
(* values.  A URL path is a sequence of tokens.                             *)
(***************************************************************************)
EXTENDS Naturals, Sequences, FiniteSets, TLC

VARIABLES kind,     \* resource kind of this instance: "detector" or "rule"
          d,        \* schema.ResourceData after the last handler: id, body, category
          srv,      \* server store: id -> NoDoc or [version, doc]
          last,     \* what the last handler was given, sent and returned
          created,  \* id and configured body of the last successful Create, while the server copy is untouched
          deleted,  \* ids a Delete succeeded on, with no Create of that id since
          http,     \* the search response under test (lookup specification)
          found     \* the lookup's result on http (lookup specification)

vars == <<kind, d, srv, last, created, deleted, http, found>>

(***************************** bounds **************************************)
MaxIds == 2
MaxVersion == 2
MaxTotal == 2
MaxHits == 1

(***************************** value sets **********************************)
Kinds == {"detector", "rule"}

IdNames == <<"a", "b", "e", "f">>

Ids == {IdNames[n] : n \in 1..MaxIds}

ServerAddedKeys == {"last_update_time"}

\* Go's encoding/json writes the keys of a map in sorted order.
KeyOrder == <<"category", "last_update_time", "name", "rule", "type">>

RECURSIVE SeqsUpTo(_, _)
SeqsUpTo(S, n) ==
    IF n = 0 THEN {<<>>}
    ELSE LET shorter == SeqsUpTo(S, n - 1)
         IN  shorter \cup {Append(s, x) : s \in {t \in shorter : Len(t) = n - 1}, x \in S}

\* configured detector bodies, JSON objects as the user writes them: empty,
\* two members in either order, one key given twice
DetectorBodies ==
    { <<>>,
      << <<"name", "s">>, <<"type", "t">> >>,
      << <<"type", "t">>, <<"name", "s">> >>,
      << <<"name", "t">>, <<"name", "s">> >> }

\* configured rule bodies: free-form rule text
RuleBodies == {<<"r1">>, <<"r2">>}

\* configured categories: without and with a character that is reserved in a URL
Categories == { <<"c">>, <<"c", " ">> }

NoErr == "nil"

NoDoc == [version |-> 0]

EmptyD == [id |-> "", body |-> <<>>, category |-> <<>>]

(***************************** JSON *****************************************)
\* json.Unmarshal of an object into map[string]interface{}: a later member
\* with the same key replaces an earlier one.
Unmarshal(text) ==
    [k \in {text[i][1] : i \in DOMAIN text} |->
        LET at == {i \in DOMAIN text : text[i][1] = k}
            hi == CHOOSE i \in at : \A j \in at : j <= i
        IN  text[hi][2]]

\* json.Marshal of a map: members in sorted key order.
Marshal(doc) ==
    LET ks == SelectSeq(KeyOrder, LAMBDA k : k \in DOMAIN doc)
    IN  [i \in 1..Len(ks) |-> <<ks[i], doc[ks[i]]>>]

\* structure.NormalizeJsonString: decode, then encode again.
NormalizeJsonString(text) == Marshal(Unmarshal(text))

\* normalizeSaDetector: drops the fields the server adds to a detector, so
\* that the document compares with the configured one.
normalizeSaDetector(doc) ==
    [k \in (DOMAIN doc) \ ServerAddedKeys |-> doc[k]]

(***************************** URL paths ************************************)
Unreserved == {"a", "b", "c", "e", "f"}

\* uritemplates: pctEncode of one character outside the unreserved set
\* (the space, %20; the only other reserved character of the model is &, %26)
pctEncode(ch) == IF ch = " " THEN <<"%", "2", "0">> ELSE <<"%", "2", "6">>

\* uritemplates.Expand of a simple {var}: every character outside the
\* unreserved set is percent-encoded.
RECURSIVE Escape(_)
Escape(s) ==
    IF s = <<>> THEN <<>>
    ELSE (IF Head(s) \in Unreserved THEN <<Head(s)>> ELSE pctEncode(Head(s)))
         \o Escape(Tail(s))

DetectorPostPath == <<"/_plugins/_security_analytics/detectors">>

DetectorIdPath(id) == <<"/_plugins/_security_analytics/detectors/">> \o Escape(<<id>>)

DetectorSearchPath == <<"/_plugins/_security_analytics/detectors/_search">>

RulePostPath(category) ==
    <<"/_plugins/_security_analytics/rules?category=">> \o Escape(category)

\* mutant: the update path without the forced parameter
RulePutPath_NoForced(id, category) ==
    <<"/_plugins/_security_analytics/rules/">> \o Escape(<<id>>)
        \o <<"?category=">> \o Escape(category)

RulePutPath(id, category) ==
    <<"/_plugins/_security_analytics/rules/">> \o Escape(<<id>>)
        \o <<"?category=">> \o Escape(category) \o <<"&forced=true">>

RuleDeletePath(id) ==
    <<"/_plugins/_security_analytics/rules/">> \o Escape(<<id>>) \o <<"?forced=true">>

RuleSearchPath == <<"/_plugins/_security_analytics/rules/_search?pre_packaged=false">>

PostPath(k, category) == IF k = "detector" THEN DetectorPostPath ELSE RulePostPath(category)

PutPath(k, id, category) ==
    IF k = "detector" THEN DetectorIdPath(id) ELSE RulePutPath(id, category)

DeletePath(k, id) == IF k = "detector" THEN DetectorIdPath(id) ELSE RuleDeletePath(id)

SearchPath(k) == IF k = "detector" THEN DetectorSearchPath ELSE RuleSearchPath

Request(method, path) == [method |-> method, path |-> path]

(***************************** the server ***********************************)
\* The document the server keeps for a posted or put body.
ServerStore(k, body, category) ==
    IF k = "detector"
    THEN LET doc == Unmarshal(body)
         IN  [x \in (DOMAIN doc) \cup ServerAddedKeys |->
                 IF x \in ServerAddedKeys THEN "u" ELSE doc[x]]
    ELSE [x \in {"category", "rule"} |-> IF x = "category" THEN category ELSE body]

\* The server writes a document's members in its own order.
ServerRender(doc) ==
    LET m == Marshal(doc)
    IN  [i \in 1..Len(m) |-> m[Len(m) + 1 - i]]

Exists(s, id) == id \in Ids /\ s[id] # NoDoc

\* The response to the size-1 ids query, or a fault of the call.  A hit
\* carries _id, _version and _source; _source_ok tells whether _source is
\* there and decodes as a JSON object.
SearchResponse(s, id, fault) ==
    IF fault = "transport"
    THEN [err |-> TRUE, decodable |-> FALSE, total |-> 0, hits |-> <<>>]
    ELSE IF fault = "garbled"
    THEN [err |-> FALSE, decodable |-> FALSE, total |-> 0, hits |-> <<>>]
    ELSE IF Exists(s, id)
    THEN [err |-> FALSE, decodable |-> TRUE, total |-> 1,
          hits |-> << [_id |-> id, _version |-> s[id].version,
                       _source |-> ServerRender(s[id].doc), _source_ok |-> TRUE] >>]
    ELSE [err |-> FALSE, decodable |-> TRUE, total |-> 0, hits |-> <<>>]

\* How a search response reads, whatever the client makes of it.
ResponseClass(resp) ==
    IF resp.err THEN "transport"
    ELSE IF ~resp.decodable THEN "garbled"
    ELSE IF resp.total = 0 THEN "zero"
    ELSE "hits"

(***************************** the client ***********************************)
\* IsSearchNotFound: recognises the error the lookup makes for zero hits.
IsSearchNotFound(err) == err = "no search results found for ID"

SearchError(err) == [status |-> "err", err |-> err, ID |-> "", Version |-> 0, Doc |-> <<>>]

\* mutant: the lookup forgets the normalisation pass over the detector
Search_SkipsNormalize(k, resp) ==
    IF resp.err THEN SearchError("transport")
    ELSE IF ~resp.decodable THEN SearchError("error unmarshalling search result")
    ELSE IF resp.total = 0 THEN SearchError("no search results found for ID")
    ELSE IF Len(resp.hits) = 0
    THEN [status |-> "panic", err |-> "index out of range", ID |-> "", Version |-> 0, Doc |-> <<>>]
    ELSE IF ~resp.hits[1]._source_ok
    THEN SearchError("error unmarshalling source")
    ELSE [status |-> "ok", err |-> NoErr,
          ID |-> resp.hits[1]._id,
          Version |-> resp.hits[1]._version,
          Doc |-> Unmarshal(resp.hits[1]._source)]

\* resourceOpensearchSaDetectorSearch / resourceOpensearchSaDetectorRuleGet on
\* the response of the search call.  Indexing Hits.Hits[0] of an empty list
\* is a run-time panic.
Search(k, resp) ==
    IF resp.err THEN SearchError("transport")
    ELSE IF ~resp.decodable THEN SearchError("error unmarshalling search result")
    ELSE IF resp.total = 0 THEN SearchError("no search results found for ID")
    ELSE IF Len(resp.hits) = 0
    THEN [status |-> "panic", err |-> "index out of range", ID |-> "", Version |-> 0, Doc |-> <<>>]
    ELSE IF ~resp.hits[1]._source_ok
    THEN SearchError("error unmarshalling source")
    ELSE LET source == Unmarshal(resp.hits[1]._source)
         IN  [status |-> "ok", err |-> NoErr,
              ID |-> resp.hits[1]._id,
              Version |-> resp.hits[1]._version,
              Doc |-> IF k = "detector" THEN normalizeSaDetector(source) ELSE source]

\* The body attribute Read sets from a lookup result.
ReadBody(k, res) ==
    IF k = "detector"
    THEN NormalizeJsonString(Marshal(res.Doc))
    ELSE IF "rule" \in DOMAIN res.Doc THEN res.Doc["rule"] ELSE <<>>

\* mutant: Read returns the not-found error and keeps the ID
resourceRead_KeepsIdOnNotFound(k, dd, resp) ==
    LET res == Search(k, resp)
    IN  IF res.status = "panic" THEN [d |-> dd, err |-> "panic"]
        ELSE IF res.err # NoErr THEN [d |-> dd, err |-> res.err]
        ELSE [d |-> [dd EXCEPT !.id = res.ID, !.body = ReadBody(k, res)], err |-> NoErr]

\* mutant: Read takes every failure of the lookup for not-found
resourceRead_AnyErrorIsNotFound(k, dd, resp) ==
    LET res == Search(k, resp)
    IN  IF res.status = "panic" THEN [d |-> dd, err |-> "panic"]
        ELSE IF res.err # NoErr THEN [d |-> [dd EXCEPT !.id = ""], err |-> NoErr]
        ELSE [d |-> [dd EXCEPT !.id = res.ID, !.body = ReadBody(k, res)], err |-> NoErr]

\* resourceOpensearchSaDetectorRead / resourceOpensearchSaDetectorRuleRead
resourceRead(k, dd, resp) ==
    LET res == Search(k, resp)
    IN  IF res.status = "panic" THEN [d |-> dd, err |-> "panic"]
        ELSE IF res.err # NoErr
        THEN IF IsSearchNotFound(res.err)
             THEN [d |-> [dd EXCEPT !.id = ""], err |-> NoErr]
             ELSE [d |-> dd, err |-> res.err]
        ELSE [d |-> [dd EXCEPT !.id = res.ID, !.body = ReadBody(k, res)], err |-> NoErr]

\* resourceOpensearchPostSaDetector / resourceOpensearchPostSaDetectorRule:
\* the request, the server's new store and the decoded response.
PostSa(k, dd, s, newId, fault) ==
    LET req == Request("POST", PostPath(k, dd.category))
    IN  IF fault = "transport"
        THEN [req |-> req, srv |-> s, err |-> "transport", ID |-> ""]
        ELSE LET s2 == [s EXCEPT ![newId] =
                           [version |-> 1, doc |-> ServerStore(k, dd.body, dd.category)]]
             IN  IF fault = "garbled"
                 THEN [req |-> req, srv |-> s2, err |-> "error unmarshalling body", ID |-> ""]
                 ELSE [req |-> req, srv |-> s2, err |-> NoErr, ID |-> newId]

\* resourceOpensearchPutSaDetector / resourceOpensearchPutSaDetectorRule.
\* A PUT on a document the server does not hold is answered 404, which
\* PerformRequest returns as an error.
PutSa(k, dd, s, fault) ==
    LET req == Request("PUT", PutPath(k, dd.id, dd.category))
    IN  IF fault = "transport" \/ ~Exists(s, dd.id)
        THEN [req |-> req, srv |-> s, err |-> "transport"]
        ELSE LET s2 == [s EXCEPT ![dd.id] =
                           [version |-> s[dd.id].version + 1,
                            doc |-> ServerStore(k, dd.body, dd.category)]]
             IN  IF fault = "garbled"
                 THEN [req |-> req, srv |-> s2, err |-> "error unmarshalling body"]
                 ELSE [req |-> req, srv |-> s2, err |-> NoErr]

\* Another party removes the document between two calls of a handler.
Removed(s, id, gone) == IF gone /\ id \in Ids THEN [s EXCEPT ![id] = NoDoc] ELSE s

(***************************** handlers *************************************)
SearchRequest(k) == Request("POST", SearchPath(k))

\* mutant: Create stores the ID only once the follow-up Read has succeeded
resourceCreate_SetsIdAfterRead(k, dd, s, newId, f1, gone, f2) ==
    LET post == PostSa(k, dd, s, newId, f1)
    IN  IF post.err # NoErr
        THEN [d |-> dd, srv |-> post.srv, err |-> post.err, reqs |-> <<post.req>>,
              resp |-> "none", postId |-> ""]
        ELSE LET d1   == [dd EXCEPT !.id = post.ID]
                 s2   == Removed(post.srv, d1.id, gone)
                 resp == SearchResponse(s2, d1.id, f2)
                 r    == resourceRead(k, d1, resp)
             IN  [d |-> IF r.err = NoErr THEN r.d ELSE dd, srv |-> s2, err |-> r.err,
                  reqs |-> <<post.req, SearchRequest(k)>>,
                  resp |-> ResponseClass(resp), postId |-> post.ID]

\* resourceOpensearchSaDetectorCreate / resourceOpensearchSaDetectorRuleCreate
resourceCreate(k, dd, s, newId, f1, gone, f2) ==
    LET post == PostSa(k, dd, s, newId, f1)
    IN  IF post.err # NoErr
        THEN [d |-> dd, srv |-> post.srv, err |-> post.err, reqs |-> <<post.req>>,
              resp |-> "none", postId |-> ""]
        ELSE LET d1   == [dd EXCEPT !.id = post.ID]
                 s2   == Removed(post.srv, d1.id, gone)
                 resp == SearchResponse(s2, d1.id, f2)
                 r    == resourceRead(k, d1, resp)
             IN  [d |-> r.d, srv |-> s2, err |-> r.err,
                  reqs |-> <<post.req, SearchRequest(k)>>,
                  resp |-> ResponseClass(resp), postId |-> post.ID]

\* resourceOpensearchSaDetectorUpdate / resourceOpensearchSaDetectorRuleUpdate
resourceUpdate(k, dd, s, f1, gone, f2) ==
    LET put == PutSa(k, dd, s, f1)
    IN  IF put.err # NoErr
        THEN [d |-> dd, srv |-> put.srv, err |-> put.err, reqs |-> <<put.req>>,
              resp |-> "none"]
        ELSE LET s2   == Removed(put.srv, dd.id, gone)
                 resp == SearchResponse(s2, dd.id, f2)
                 r    == resourceRead(k, dd, resp)
             IN  [d |-> r.d, srv |-> s2, err |-> r.err,
                  reqs |-> <<put.req, SearchRequest(k)>>,
                  resp |-> ResponseClass(resp)]

\* mutant: Delete drops the error of the DELETE call
resourceDelete_SwallowsError(k, dd, s, fault) ==
    LET req == Request("DELETE", DeletePath(k, dd.id))
    IN  IF fault = "transport" \/ ~Exists(s, dd.id)
        THEN [d |-> dd, srv |-> s, err |-> NoErr, reqs |-> <<req>>]
        ELSE [d |-> dd, srv |-> [s EXCEPT ![dd.id] = NoDoc], err |-> NoErr, reqs |-> <<req>>]

\* resourceOpensearchSaDetectorDelete / resourceOpensearchSaDetectorRuleDelete.
\* The response body is not read; a DELETE of a document the server does
\* not hold is answered 404, which PerformRequest returns as an error.
resourceDelete(k, dd, s, fault) ==
    LET req == Request("DELETE", DeletePath(k, dd.id))
    IN  IF fault = "transport" \/ ~Exists(s, dd.id)
        THEN [d |-> dd, srv |-> s, err |-> "transport", reqs |-> <<req>>]
        ELSE [d |-> dd, srv |-> [s EXCEPT ![dd.id] = NoDoc], err |-> NoErr, reqs |-> <<req>>]

(***************************** state machine ********************************)
\* In the actions, "\E out \in {handler(...)}" names the one result of a
\* handler call.
Faults == {"ok", "transport", "garbled"}

\* What can happen to the two calls of Create and Update: the fault of the
\* first call and, when there is a second call, whether the document is
\* removed in between and the fault of the search.
Scenarios ==
    { <<f1, FALSE, "ok">> : f1 \in {"transport", "garbled"} }
        \cup { <<"ok", gone, f2>> : gone \in BOOLEAN, f2 \in Faults }

Bodies(k) == IF k = "detector" THEN DetectorBodies ELSE RuleBodies

Cats(k) == IF k = "detector" THEN {<<>>} ELSE Categories

NoCreated == [id |-> "", body |-> <<>>]

NoResponse == [err |-> FALSE, decodable |-> FALSE, total |-> 0, hits |-> <<>>]

NotLooked == [status |-> "none", err |-> NoErr, ID |-> "", Version |-> 0, Doc |-> <<>>]

\* The host framework keeps no state for a resource whose ID is empty.
Persist(dd) == IF dd.id = "" THEN EmptyD ELSE dd

VersionOf(s, id) == IF Exists(s, id) THEN s[id].version ELSE 0

\* created survives a step that leaves the server's copy as it was
KeepCreated(s2) ==
    IF created.id # "" /\ s2[created.id] = srv[created.id] THEN created ELSE NoCreated

Init ==
    /\ kind \in Kinds
    /\ d = EmptyD
    /\ srv = [i \in Ids |-> NoDoc]
    /\ last = [op |-> "none", err |-> NoErr, preId |-> "", preVersion |-> 0,
               cfgBody |-> <<>>, cfgCat |-> <<>>, call1 |-> "none", resp |-> "none",
               postId |-> "", endVersion |-> 0, reqs |-> <<>>]
    /\ created = NoCreated
    /\ deleted = {}
    /\ http = NoResponse
    /\ found = NotLooked

Create ==
    /\ d.id = ""
    /\ \E body \in Bodies(kind), cat \in Cats(kind), newId \in {i \in Ids : srv[i] = NoDoc},
          sc \in Scenarios :
         LET f1  == sc[1]
             dd  == [id |-> "", body |-> body, category |-> cat]
         IN  \E out \in {resourceCreate(kind, dd, srv, newId, f1, sc[2], sc[3])} :
             /\ d' = Persist(out.d)
             /\ srv' = out.srv
             /\ last' = [op |-> "Create", err |-> out.err, preId |-> "", preVersion |-> 0,
                         cfgBody |-> body, cfgCat |-> cat, call1 |-> f1, resp |-> out.resp,
                         postId |-> out.postId, endVersion |-> VersionOf(out.srv, newId),
                         reqs |-> out.reqs]
             /\ created' = IF out.err = NoErr /\ out.d.id # ""
                           THEN [id |-> out.d.id, body |-> body] ELSE NoCreated
             /\ deleted' = IF f1 = "transport" THEN deleted ELSE deleted \ {newId}
    /\ UNCHANGED <<kind, http, found>>

Read ==
    /\ d.id # ""
    /\ \E f \in Faults :
         LET resp == SearchResponse(srv, d.id, f)
         IN  \E r \in {resourceRead(kind, d, resp)} :
             /\ d' = Persist(r.d)
             /\ last' = [op |-> "Read", err |-> r.err, preId |-> d.id,
                         preVersion |-> VersionOf(srv, d.id),
                         cfgBody |-> <<>>, cfgCat |-> <<>>, call1 |-> "none",
                         resp |-> ResponseClass(resp), postId |-> "",
                         endVersion |-> VersionOf(srv, d.id),
                         reqs |-> <<SearchRequest(kind)>>]
    /\ UNCHANGED <<kind, srv, created, deleted, http, found>>

\* schema.ImportStatePassthroughContext: the given ID becomes the local ID,
\* then Read fills the state; a failed import keeps nothing.
Import ==
    /\ d.id = ""
    /\ \E i \in Ids, f \in Faults :
         LET dd   == [EmptyD EXCEPT !.id = i]
             resp == SearchResponse(srv, i, f)
         IN  \E r \in {resourceRead(kind, dd, resp)} :
             /\ d' = IF r.err = NoErr THEN Persist(r.d) ELSE EmptyD
             /\ last' = [op |-> "Import", err |-> r.err, preId |-> i,
                         preVersion |-> VersionOf(srv, i),
                         cfgBody |-> <<>>, cfgCat |-> <<>>, call1 |-> "none",
                         resp |-> ResponseClass(resp), postId |-> "",
                         endVersion |-> VersionOf(srv, i),
                         reqs |-> <<SearchRequest(kind)>>]
    /\ UNCHANGED <<kind, srv, created, deleted, http, found>>

Update ==
    /\ d.id # ""
    /\ VersionOf(srv, d.id) < MaxVersion
    /\ \E body \in Bodies(kind), cat \in Cats(kind), sc \in Scenarios :
         LET f1  == sc[1]
             dd  == [id |-> d.id, body |-> body, category |-> cat]
         IN  \E out \in {resourceUpdate(kind, dd, srv, f1, sc[2], sc[3])} :
             /\ d' = Persist(out.d)
             /\ srv' = out.srv
             /\ last' = [op |-> "Update", err |-> out.err, preId |-> d.id,
                         preVersion |-> VersionOf(srv, d.id),
                         cfgBody |-> body, cfgCat |-> cat, call1 |-> f1, resp |-> out.resp,
                         postId |-> "", endVersion |-> VersionOf(out.srv, d.id),
                         reqs |-> out.reqs]
             /\ created' = KeepCreated(out.srv)
    /\ UNCHANGED <<kind, deleted, http, found>>

\* After a Delete that returns no error the host framework drops the state.
Delete ==
    /\ d.id # ""
    /\ \E f \in {"ok", "transport"} :
         \E out \in {resourceDelete(kind, d, srv, f)} :
             /\ d' = IF out.err = NoErr THEN EmptyD ELSE out.d
             /\ srv' = out.srv
             /\ last' = [op |-> "Delete", err |-> out.err, preId |-> d.id,
                         preVersion |-> VersionOf(srv, d.id),
                         cfgBody |-> <<>>, cfgCat |-> <<>>, call1 |-> f, resp |-> "none",
                         postId |-> "", endVersion |-> VersionOf(out.srv, d.id),
                         reqs |-> out.reqs]
             /\ created' = KeepCreated(out.srv)
             /\ deleted' = IF out.err = NoErr THEN deleted \cup {d.id} ELSE deleted
    /\ UNCHANGED <<kind, http, found>>

\* Another party removes a document on the server.
ExternalDelete ==
    /\ \E i \in Ids :
         /\ Exists(srv, i)
         /\ srv' = [srv EXCEPT ![i] = NoDoc]
         /\ created' = KeepCreated(srv')
    /\ UNCHANGED <<kind, d, last, deleted, http, found>>

Next == Create \/ Read \/ Import \/ Update \/ Delete \/ ExternalDelete

Spec == Init /\ [][Next]_vars

(***************************** the lookup alone *****************************)
\* Every search response that decodes: any hit count beside any list of hits.
SourceTexts == { <<>>, << <<"name", "s">> >>, << <<"rule", <<"r1">>>> >> }

HitSet == [_id : Ids, _version : 1..MaxVersion, _source : SourceTexts, _source_ok : BOOLEAN]

DecodableResponses ==
    [err : {FALSE}, decodable : {TRUE}, total : 0..MaxTotal, hits : SeqsUpTo(HitSet, MaxHits)]

InitLookup ==
    /\ kind \in Kinds
    /\ d = EmptyD
    /\ srv = [i \in Ids |-> NoDoc]
    /\ last = [op |-> "none", err |-> NoErr, preId |-> "", preVersion |-> 0,
               cfgBody |-> <<>>, cfgCat |-> <<>>, call1 |-> "none", resp |-> "none",
               postId |-> "", endVersion |-> 0, reqs |-> <<>>]
    /\ created = NoCreated
    /\ deleted = {}
    /\ http \in DecodableResponses
    /\ found = NotLooked

Lookup ==
    /\ found.status = "none"
    /\ found' = Search(kind, http)
    /\ UNCHANGED <<kind, d, srv, last, created, deleted, http>>

NextLookup == Lookup

SpecLookup == InitLookup /\ [][NextLookup]_vars

(***************************** properties ***********************************)
TransportFailed == last.call1 = "transport" \/ last.resp = "transport"

\* C1: whenever Read (on its own, at import, or at the end of Create and
\* Update) gets a search response with zero hits, the local ID ends empty
\* and no error is returned.
C1_ZeroHitsClearsId ==
    last.resp = "zero" => (d.id = "" /\ last.err = NoErr)

C1_Witness ==
    last.op = "Read" /\ last.preId # "" /\ last.resp = "zero" /\ d.id = ""

\* C2 as stated: a transport error of any call of Create leaves the local
\* ID unset, a transport error of any call of Update leaves ID and body as
\* the handler found them; the error is returned.
C2_NoPartialState ==
    /\ (last.op = "Create" /\ TransportFailed) => (last.err # NoErr /\ d.id = "")
    /\ (last.op = "Update" /\ TransportFailed)
          => (last.err # NoErr /\ d.id = last.preId /\ d.body = last.cfgBody)

\* C2 amended: the ID stays unset when the POST fails; when the POST
\* succeeded and the follow-up search fails in transport, Create returns the
\* error with the local ID already set to the server's _id.  Update leaves
\* the ID and the body it was called with untouched in both cases.
C2_IdSetBeforeFollowUpRead ==
    /\ (last.op = "Create" /\ last.call1 = "transport") => (last.err # NoErr /\ d.id = "")
    /\ (last.op = "Create" /\ last.call1 = "ok" /\ last.resp = "transport")
          => (last.err # NoErr /\ d.id # "" /\ d.id = last.postId /\ d.body = last.cfgBody)
    /\ (last.op = "Update" /\ TransportFailed)
          => (last.err # NoErr /\ d.id = last.preId /\ d.body = last.cfgBody)

C2_Witness ==
    last.op = "Create" /\ last.call1 = "ok" /\ last.resp = "transport" /\ d.id = last.postId

C4_CreateOkHasServerId ==
    (last.op = "Create" /\ last.err = NoErr) => (d.id # "" /\ d.id = last.postId)

\* C5: a successful Update leaves the local ID as it was and the version
\* the server holds for it strictly greater than before.
C5_UpdateKeepsIdRaisesVersion ==
    (last.op = "Update" /\ last.err = NoErr)
        => (d.id = last.preId /\ last.endVersion > last.preVersion)

\* C6: once Delete succeeded on an ID, and until a Create is given that ID
\* again, the lookup of the ID on the server's answer is the not-found
\* error, and a Read of it that gets the server's answer clears the local ID
\* without error.
C6_DeletedIsNotFound ==
    /\ \A i \in deleted :
          IsSearchNotFound(Search(kind, SearchResponse(srv, i, "ok")).err)
    /\ (/\ last.op \in {"Read", "Import"}
        /\ last.preId \in deleted
        /\ last.resp \notin {"transport", "garbled"})
          => (last.resp = "zero" /\ d.id = "" /\ last.err = NoErr)

C6_Witness ==
    last.op = "Import" /\ last.preId \in deleted /\ last.resp = "zero" /\ d.id = ""

HasForced(path) == path[Len(path)] \in {"?forced=true", "&forced=true"}

RuleRequestsForced ==
    /\ last.op = "Update" => (last.reqs[1].method = "PUT" /\ HasForced(last.reqs[1].path))
    /\ last.op = "Delete" => (last.reqs[1].method = "DELETE" /\ HasForced(last.reqs[1].path))

\* C7 as stated: for rules the PUT of Update and the DELETE of Delete carry
\* forced=true, and the POST of Create goes to rules?category=C with C the
\* configured category, character for character.
C7_CategoryVerbatim ==
    kind = "rule" =>
        /\ RuleRequestsForced
        /\ last.op = "Create" =>
              /\ last.reqs[1].method = "POST"
              /\ last.reqs[1].path
                    = <<"/_plugins/_security_analytics/rules?category=">> \o last.cfgCat

\* C7 amended: the PUT and the DELETE carry forced=true, and the POST of
\* Create goes to rules?category=E with E the percent-encoding of the
\* configured category, which is the category itself when all its
\* characters are unreserved.
C7_CategoryPercentEncoded ==
    kind = "rule" =>
        /\ RuleRequestsForced
        /\ last.op = "Create" =>
              /\ last.reqs[1].method = "POST"
              /\ last.reqs[1].path
                    = <<"/_plugins/_security_analytics/rules?category=">> \o Escape(last.cfgCat)
              /\ (\A n \in DOMAIN last.cfgCat : last.cfgCat[n] \in Unreserved)
                    => last.reqs[1].path
                          = <<"/_plugins/_security_analytics/rules?category=">> \o last.cfgCat

C7_Witness ==
    /\ kind = "rule"
    /\ last.op = "Update"
    /\ last.reqs[1].method = "PUT"
    /\ HasForced(last.reqs[1].path)
    /\ \E n \in DOMAIN last.cfgCat : last.cfgCat[n] \notin Unreserved

\* C8: a Read whose search fails in transport or comes back undecodable
\* returns an error that is not the not-found error and changes neither ID
\* nor body; a Read empties the ID only on a response with zero hits.
C8_ReadTellsNotFoundApart ==
    [][ /\ (last'.op = "Read" /\ last'.resp \in {"transport", "garbled"})
            => (last'.err # NoErr /\ ~IsSearchNotFound(last'.err) /\ d' = d)
        /\ (last'.op = "Read" /\ d.id # "" /\ d'.id = "")
            => last'.resp = "zero" ]_vars

C8_Witness ==
    last.op = "Read" /\ last.resp = "garbled" /\ last.err # NoErr /\ d.id = last.preId

\* C9: an import that succeeds keeps the given ID and fills every
\* configured attribute from the remote document: body for a detector, body
\* and category for a rule.
C9_ImportFillsEveryAttribute ==
    (last.op = "Import" /\ last.err = NoErr /\ d.id # "" /\ Exists(srv, d.id))
        => /\ d.id = last.preId
           /\ kind = "detector"
                 => d.body = Marshal(normalizeSaDetector(srv[d.id].doc))
           /\ kind = "rule"
                 => (d.body = srv[d.id].doc["rule"] /\ d.category = srv[d.id].doc["category"])

\* C10: on every search response that decodes, the lookup ends with an
\* error or a populated result and never indexes a hit that is not there.
C10_LookupNeverOutOfRange ==
    found.status \in {"none", "err", "ok"}

====
